---- MODULE Spec2Model ----
(***************************************************************************)
(* Model of the simtool result cache: the HTTP cache client                *)
(* (simtool/cache_client.py) talking to the Flask cache server             *)
(* (simtool/cache_web_server.py).                                          *)
(*                                                                         *)
(* Strings are sequences of one-character strings, so that the path        *)
(* transforms (separator replacement, split, secure_filename) are computed *)
(* character by character as the code computes them.  A filesystem path is *)
(* a sequence of segments below its root (cache root, source directory or  *)
(* output directory).                                                      *)
(***************************************************************************)
EXTENDS Integers, Sequences, FiniteSets, TLC

(***************************************************************************)
(* Bounds and input sets                                                   *)
(***************************************************************************)
\* largest number of files in a source tree handed to store_result
MaxFiles == 2
\* largest number of store_result calls in one behaviour
MaxStores == 1

\* CacheConfig.MAX_RETRIES
MaxRetriesMutant == 3 + 1

MAX_RETRIES == 3

\* the reserved token standing for a path separator in a stored name
Token == <<"_", ".", "_">>

\* characters kept by secure_filename's [^A-Za-z0-9_.-] filter
SafeChars == {"a", "b", "c", "e", "f", "g", "h", "l", "s", "v", "x", "z",
              "_", ".", "-"}

\* squid ids (tool/revision/hash) used by the callers
Id1 == <<"s", "/", "v", "/", "h">>
Id2 == <<"s", "/", "v", "/", "g">>
IdSet == {Id1, Id2}
\* the id results are stored under
StoreIds == {Id1}
\* ids a request may carry: the empty id is the request the server rejects
ReqIds == IdSet \cup {<<>>}

\* file and directory names of the source trees
FileNames ==
  { <<"b">>,
    <<".", "a">>,
    <<"a", "_", ".", "_", "b">>,
    <<"_", ".", "_">> }
DirNames == { <<"a">> }
\* a name that is in no source tree
Missing == <<"z">>

(***************************************************************************)
(* String helpers                                                          *)
(***************************************************************************)
StartsWith(s, t) == Len(s) >= Len(t) /\ SubSeq(s, 1, Len(t)) = t

Drop(s, n) == SubSeq(s, n + 1, Len(s))

\* str.replace(c, r) for a one-character c
RECURSIVE Replace(_, _, _)
Replace(s, c, r) ==
  IF s = <<>> THEN <<>>
  ELSE (IF Head(s) = c THEN r ELSE <<Head(s)>>) \o Replace(Tail(s), c, r)

\* str.split(t): left to right, non-overlapping, empty parts kept
RECURSIVE SplitAcc(_, _, _)
SplitAcc(s, t, cur) ==
  IF s = <<>> THEN <<cur>>
  ELSE IF StartsWith(s, t) THEN <<cur>> \o SplitAcc(Drop(s, Len(t)), t, <<>>)
  ELSE SplitAcc(Tail(s), t, Append(cur, Head(s)))

Split(s, t) == SplitAcc(s, t, <<>>)

\* t.join(parts)
RECURSIVE Join(_, _)
Join(parts, t) ==
  IF parts = <<>> THEN <<>>
  ELSE IF Len(parts) = 1 THEN parts[1]
  ELSE parts[1] \o t \o Join(Tail(parts), t)

NonEmpty(x) == x # <<>>

\* str.strip(chars)
RECURSIVE LStrip(_, _)
LStrip(s, cs) ==
  IF s # <<>> /\ Head(s) \in cs THEN LStrip(Tail(s), cs) ELSE s

RECURSIVE RStrip(_, _)
RStrip(s, cs) ==
  IF s # <<>> /\ s[Len(s)] \in cs THEN RStrip(SubSeq(s, 1, Len(s) - 1), cs) ELSE s

Strip(s, cs) == RStrip(LStrip(s, cs), cs)

IsSafeChar(c) == c \in SafeChars

\* werkzeug's secure_filename as called by the upload handler: separators
\* become spaces, whitespace runs become single "_", characters outside
\* [A-Za-z0-9_.-] are dropped, leading and trailing "." and "_" are stripped
SecureFilename(name) ==
  LET spaced == Replace(name, "/", <<" ">>)
      words  == SelectSeq(Split(spaced, <<" ">>), NonEmpty)
      joined == Join(words, <<"_">>)
  IN  Strip(SelectSeq(joined, IsSafeChar), {".", "_"})

(***************************************************************************)
(* Paths                                                                   *)
(***************************************************************************)
\* the segments of a "/"-separated string, as os.path.join(root, s) followed
\* by a filesystem lookup sees them (empty segments vanish)
PathOf(s) == SelectSeq(Split(s, <<"/">>), NonEmpty)

\* the "/"-separated string of a relative path (os.path.relpath)
RelPath(p) == Join(p, <<"/">>)

IsPrefix(p, q) == Len(p) <= Len(q) /\ SubSeq(q, 1, Len(p)) = p
IsProperPrefix(p, q) == Len(p) < Len(q) /\ SubSeq(q, 1, Len(p)) = p

Prefixes(p) == { SubSeq(p, 1, n) : n \in 0..Len(p) }

Parent(p) == SubSeq(p, 1, Len(p) - 1)

\* rel_path.replace(os.sep, "_._") in store_result
CacheKey(p) == Replace(RelPath(p), "/", Token)

\* file_name.split("_._") joined below the output directory in
\* get_archived_result; os.path.join drops empty middle components
RestorePath(name) ==
  IF Len(Split(name, Token)) > 1
  THEN SelectSeq(Split(name, Token), NonEmpty)
  ELSE <<name>>

(***************************************************************************)
(* The server's store: the cache root and the host filesystem around it    *)
(***************************************************************************)
\* the cache root is the directory /c of the host
RootName == <<"c">>

Up == <<".", ".">>
Cur == <<".">>

\* A location of the filesystem is named by its segments below the cache
\* root; a location outside the cache root by <<Up>> followed by its
\* segments below "/".  <<>> is the cache root, <<Up>> is "/".
HostRoot == <<Up>>

\* what the host holds beside the cache root: the directory /cx with a
\* file f, the directory /e with a file f
Sibling == <<Up, <<"c", "x">>>>
Elsewhere == <<Up, <<"e">>>>

\* the symbolic links of the host: /c/l points to /e
HostLinks == [k \in { << <<"l">> >> } |-> Elsewhere]

\* a store value: the directories and the regular files; at start the
\* cache root is empty
EmptyStore ==
  [dirs  |-> {<<>>, HostRoot, Sibling, Elsewhere},
   files |-> [k \in {Append(Sibling, <<"f">>), Append(Elsewhere, <<"f">>)} |->
                IF k = Append(Sibling, <<"f">>) THEN 7 ELSE 8]]

IsDir(p, st) == p \in st.dirs
IsFile(p, st) == p \in DOMAIN st.files

\* a location is inside the cache root
Inside(k) == k = <<>> \/ k[1] # Up

\* the location a symbolic link stands for
Follow(k) == IF k \in DOMAIN HostLinks THEN HostLinks[k] ELSE k

\* the directory holding a location: the parent of "/" is "/"
ParentOf(k) ==
  IF k = <<>> \/ k = HostRoot THEN HostRoot ELSE Parent(k)

\* the entry seg of directory k, symbolic links followed
Child(k, seg) ==
  IF k = HostRoot /\ seg = RootName THEN <<>> ELSE Follow(Append(k, seg))

\* one step of a path lookup
Step(k, seg) ==
  IF seg = Cur THEN k ELSE IF seg = Up THEN ParentOf(k) ELSE Child(k, seg)

\* os.path.join(cache_root, c1, c2, ...): the directory the path starts
\* from, its segments, and whether it ends with a separator; a component
\* that starts with "/" discards what precedes it
RECURSIVE JoinFrom(_, _, _, _)
JoinFrom(base, segs, slash, comps) ==
  IF comps = <<>> THEN [base |-> base, segs |-> segs, slash |-> slash]
  ELSE LET c == Head(comps)
           s == c = <<>> \/ c[Len(c)] = "/"
       IN  IF StartsWith(c, <<"/">>)
           THEN JoinFrom(HostRoot, PathOf(c), s, Tail(comps))
           ELSE JoinFrom(base, segs \o PathOf(c), s, Tail(comps))

OsPathJoin(comps) == JoinFrom(<<>>, <<>>, FALSE, comps)

\* os.path.realpath: "." and ".." are resolved and symbolic links followed,
\* whether or not the components exist
RECURSIVE WalkPath(_, _)
WalkPath(k, segs) ==
  IF segs = <<>> THEN k ELSE WalkPath(Step(k, Head(segs)), Tail(segs))

RealPath(path) == WalkPath(path.base, path.segs)

\* the text of a resolved location: "/c/s/v/h", "/cx/f", "/"
PathStr(k) ==
  <<"/">> \o Join(IF Inside(k) THEN <<RootName>> \o k ELSE Tail(k), <<"/">>)

\* the operating system's lookup of a path succeeds only through existing
\* directories
RECURSIVE Reachable(_, _, _)
Reachable(k, segs, st) ==
  \/ segs = <<>>
  \/ IsDir(k, st) /\ Reachable(Step(k, Head(segs)), Tail(segs), st)

\* os.path.isdir, os.path.isfile
OsIsDir(path, st) ==
  Reachable(path.base, path.segs, st) /\ IsDir(RealPath(path), st)

OsIsFile(path, st) ==
  ~path.slash /\ Reachable(path.base, path.segs, st) /\ IsFile(RealPath(path), st)

\* the locations a lookup of a path passes through
RECURSIVE Visited(_, _)
Visited(k, segs) ==
  IF segs = <<>> THEN {k}
  ELSE {k} \cup Visited(Step(k, Head(segs)), Tail(segs))

\* os.makedirs(path, exist_ok=True): every component that is missing is
\* created; fails when a component is a regular file
MakedirsPath(path, st) ==
  IF \E q \in Visited(path.base, path.segs) : IsFile(q, st)
  THEN [ok |-> FALSE, st |-> st]
  ELSE [ok |-> TRUE,
        st |-> [st EXCEPT !.dirs = @ \cup Visited(path.base, path.segs)]]

\* os.makedirs(p, exist_ok=True) of a resolved location
Makedirs(p, st) ==
  IF \E q \in Prefixes(p) : IsFile(q, st)
  THEN [ok |-> FALSE, st |-> st]
  ELSE [ok |-> TRUE, st |-> [st EXCEPT !.dirs = @ \cup Prefixes(p)]]

\* file_obj.save(p): open(p, "wb") and write; fails on a directory or when
\* the parent is not a directory
SaveFileAppendMutant(p, b, st) ==
  IF IsDir(p, st) \/ ~IsDir(ParentOf(p), st)
  THEN [ok |-> FALSE, st |-> st]
  ELSE [ok |-> TRUE,
        st |-> [st EXCEPT !.files =
                  [q \in DOMAIN st.files \cup {p} |->
                     IF q # p THEN st.files[q]
                     ELSE IF p \in DOMAIN st.files THEN st.files[p] + b
                     ELSE b]]]

SaveFileMutant(p, b, st) ==
  IF IsDir(p, st) \/ ~IsDir(ParentOf(p), st)
  THEN [ok |-> FALSE, st |-> st]
  ELSE [ok |-> TRUE, st |-> [st EXCEPT !.files = [q \in {p} |-> b]]]

SaveFile(p, b, st) ==
  IF IsDir(p, st) \/ ~IsDir(ParentOf(p), st)
  THEN [ok |-> FALSE, st |-> st]
  ELSE [ok |-> TRUE,
        st |-> [st EXCEPT !.files =
                  [q \in DOMAIN st.files \cup {p} |->
                     IF q = p THEN b ELSE st.files[q]]]]

\* names of the regular files directly in directory d (os.listdir + isfile)
FilesIn(d, st) ==
  { p[Len(p)] : p \in { q \in DOMAIN st.files : Len(q) > 0 /\ ParentOf(q) = d } }

\* os.path.join(cache_root, squid_id): the entry directory of an id
SquidPath(id) == OsPathJoin(<<id>>)
SquidDir(id) == RealPath(SquidPath(id))

(***************************************************************************)
(* File handles                                                            *)
(***************************************************************************)
\* the characters of the model and their ASCII codes (str.encode())
CharList == <<"a", "b", "c", "e", "f", "g", "h", "l", "s", "v", "x", "z",
              ".", "_", "-", "/", ":", " ", "!", "?",
              "{", "}", "\"", ",", "1", "2">>
CodeList == <<97, 98, 99, 101, 102, 103, 104, 108, 115, 118, 120, 122,
              46, 95, 45, 47, 58, 32, 33, 63,
              123, 125, 34, 44, 49, 50>>

OrdTable ==
  [c \in {CharList[i] : i \in 1..Len(CharList)} |->
     CodeList[CHOOSE i \in 1..Len(CharList) : CharList[i] = c]]

ChrTable ==
  [b \in {CodeList[i] : i \in 1..Len(CodeList)} |->
     CharList[CHOOSE i \in 1..Len(CodeList) : CodeList[i] = b]]

Ord(c) == OrdTable[c]

\* bytes.decode() of one byte below 128; a character outside the model's
\* characters reads as "?"
Chr(b) == IF b \in DOMAIN ChrTable THEN ChrTable[b] ELSE "?"

\* the base64 alphabet, in the order of the 6-bit values 0..63
B64Alphabet ==
  <<"A", "B", "C", "D", "E", "F", "G", "H", "I", "J", "K", "L", "M",
    "N", "O", "P", "Q", "R", "S", "T", "U", "V", "W", "X", "Y", "Z",
    "a", "b", "c", "d", "e", "f", "g", "h", "i", "j", "k", "l", "m",
    "n", "o", "p", "q", "r", "s", "t", "u", "v", "w", "x", "y", "z",
    "0", "1", "2", "3", "4", "5", "6", "7", "8", "9", "+", "/">>

\* the 6-bit value of each character of the alphabet
B64Values ==
  [c \in {B64Alphabet[i] : i \in 1..64} |->
     (CHOOSE i \in 1..64 : B64Alphabet[i] = c) - 1]

B64Char(n) == B64Alphabet[n + 1]
B64Value(c) == B64Values[c]
IsB64Char(c) == c \in DOMAIN B64Values
IsPad(c) == c = "="

\* base64.b64encode of a byte sequence: three bytes give four characters,
\* a shorter last group is padded with "="
RECURSIVE B64EncodeBytes(_)
B64EncodeBytes(bs) ==
  IF bs = <<>> THEN <<>>
  ELSE IF Len(bs) = 1
  THEN << B64Char(bs[1] \div 4), B64Char((bs[1] % 4) * 16), "=", "=" >>
  ELSE IF Len(bs) = 2
  THEN << B64Char(bs[1] \div 4),
          B64Char((bs[1] % 4) * 16 + bs[2] \div 16),
          B64Char((bs[2] % 16) * 4), "=" >>
  ELSE << B64Char(bs[1] \div 4),
          B64Char((bs[1] % 4) * 16 + bs[2] \div 16),
          B64Char((bs[2] % 16) * 4 + bs[3] \div 64),
          B64Char(bs[3] % 64) >> \o B64EncodeBytes(Drop(bs, 3))

\* base64.b64encode(s.encode()).decode()
B64Encode(s) == B64EncodeBytes([i \in 1..Len(s) |-> Ord(s[i])])

\* the bytes of a sequence of 6-bit values; an incomplete last group gives
\* the bytes it holds in full
RECURSIVE B64DecodeValues(_)
B64DecodeValues(vs) ==
  IF Len(vs) < 2 THEN <<>>
  ELSE IF Len(vs) = 2
  THEN << vs[1] * 4 + vs[2] \div 16 >>
  ELSE IF Len(vs) = 3
  THEN << vs[1] * 4 + vs[2] \div 16, (vs[2] % 16) * 16 + vs[3] \div 4 >>
  ELSE << vs[1] * 4 + vs[2] \div 16,
          (vs[2] % 16) * 16 + vs[3] \div 4,
          (vs[3] % 4) * 64 + vs[4] >> \o B64DecodeValues(Drop(vs, 4))

\* the bytes base64.b64decode(h) reads: characters outside the alphabet are
\* skipped
B64Bytes(h) ==
  LET data == SelectSeq(h, IsB64Char)
  IN  B64DecodeValues([i \in 1..Len(data) |-> B64Value(data[i])])

\* base64.b64decode(h.encode()).decode() succeeds: the padding is correct
\* and the bytes are text (no byte is 128 or above)
B64Valid(h) ==
  LET n  == Len(SelectSeq(h, IsB64Char))
      p  == Len(SelectSeq(h, IsPad))
      bs == B64Bytes(h)
  IN  /\ \/ n % 4 = 0
         \/ n % 4 = 2 /\ p >= 2
         \/ n % 4 = 3 /\ p >= 1
      /\ \A i \in 1..Len(bs) : bs[i] < 128

B64Decode(h) == LET bs == B64Bytes(h) IN [i \in 1..Len(bs) |-> Chr(bs[i])]

\* _get_file_id: base64 of "{squid_id}:{file_name}"
GetFileId(id, name) == B64Encode(id \o <<":">> \o name)

\* decoded.split(":", 1)
RECURSIVE SplitFirstAcc(_, _, _)
SplitFirstAcc(s, c, cur) ==
  IF s = <<>> THEN <<cur>>
  ELSE IF Head(s) = c THEN <<cur, Tail(s)>>
  ELSE SplitFirstAcc(Tail(s), c, Append(cur, Head(s)))

\* _decode_file_id: <<squid_id, file_name>>, or <<>> for None
DecodeFileIdMutant(h) ==
  IF ~B64Valid(h) THEN <<>>
  ELSE LET parts == SplitFirstAcc(B64Decode(h), ":", <<>>)
       IN  IF Len(parts) = 2 THEN parts ELSE <<parts[1], <<>>>>

DecodeFileId(h) ==
  IF ~B64Valid(h) THEN <<>>
  ELSE LET parts == SplitFirstAcc(B64Decode(h), ":", <<>>)
       IN  IF Len(parts) = 2 THEN parts ELSE <<>>

(***************************************************************************)
(* Server handlers: each returns the HTTP status, the body and the store   *)
(***************************************************************************)
Resp(status, body, st) == [status |-> status, body |-> body, st |-> st]

\* body of an answer that carries nothing the client reads
NoBody ==
  [exists |-> FALSE, files |-> {}, data |-> 0, saved |-> <<>>, count |-> 0,
   entries |-> {}, id |-> <<>>, total |-> 0]

\* GET /api/squid/exists
SrvExistsMutant(id, st) ==
  IF id = <<>> THEN Resp(400, NoBody, st)
  ELSE Resp(200, [NoBody EXCEPT !.exists = IsFile(SquidDir(id), st)], st)

SrvExistsParentMutant(id, st) ==
  IF id = <<>> THEN Resp(400, NoBody, st)
  ELSE Resp(200,
            [NoBody EXCEPT !.exists = IsDir(ParentOf(SquidDir(id)), st)], st)

SrvExists(id, st) ==
  IF id = <<>> THEN Resp(400, NoBody, st)
  ELSE Resp(200, [NoBody EXCEPT !.exists = OsIsDir(SquidPath(id), st)], st)

\* GET /api/squid/files
SrvListMutant(id, st) ==
  IF id = <<>> THEN Resp(400, NoBody, st)
  ELSE Resp(200,
            [NoBody EXCEPT !.files =
               { [id |-> GetFileId(id, n), name |-> n] : n \in FilesIn(SquidDir(id), st) }],
            MakedirsPath(SquidPath(id), st).st)

SrvListDirsMutant(id, st) ==
  IF id = <<>> THEN Resp(400, NoBody, st)
  ELSE IF ~OsIsDir(SquidPath(id), st) THEN Resp(200, NoBody, st)
  ELSE Resp(200,
            [NoBody EXCEPT !.files =
               { [id |-> GetFileId(id, n), name |-> n] :
                   n \in { q[Len(q)] : q \in { d \in st.dirs :
                              Len(d) > 0 /\ d # SquidDir(id)
                                /\ ParentOf(d) = SquidDir(id) } } }],
            st)

SrvList(id, st) ==
  IF id = <<>> THEN Resp(400, NoBody, st)
  ELSE IF ~OsIsDir(SquidPath(id), st) THEN Resp(200, NoBody, st)
  ELSE Resp(200,
            [NoBody EXCEPT !.files =
               { [id |-> GetFileId(id, n), name |-> n] : n \in FilesIn(SquidDir(id), st) }],
            st)

\* os.path.realpath(self.cache_root)
CacheRealPath == PathStr(<<>>)

\* GET /api/files/<file_id>, file_id being a path segment of the URL
SrvDownloadMutant(h, st) ==
  LET decoded == DecodeFileId(h)
  IN  IF decoded = <<>> THEN Resp(400, NoBody, st)
      ELSE LET file_path == OsPathJoin(<<decoded[1], decoded[2]>>)
               real_path == PathStr(RealPath(file_path))
           IN  IF ~StartsWith(real_path, CacheRealPath) THEN Resp(403, NoBody, st)
               ELSE IF ~OsIsFile(file_path, st) THEN Resp(500, NoBody, st)
               ELSE Resp(200, [NoBody EXCEPT !.data = st.files[RealPath(file_path)]], st)

SrvDownload(h, st) ==
  LET decoded == DecodeFileId(h)
  IN  IF decoded = <<>> THEN Resp(400, NoBody, st)
      ELSE LET file_path == OsPathJoin(<<decoded[1], decoded[2]>>)
               real_path == PathStr(RealPath(file_path))
           IN  IF ~StartsWith(real_path, CacheRealPath) THEN Resp(403, NoBody, st)
               ELSE IF ~OsIsFile(file_path, st) THEN Resp(404, NoBody, st)
               ELSE Resp(200, [NoBody EXCEPT !.data = st.files[RealPath(file_path)]], st)

\* the loop of upload_files over the file parts, in request order; an
\* exception (makedirs or save failing) ends the request with 500 and
\* leaves what was written before it
RECURSIVE SavePartsMutant(_, _, _, _)
SavePartsMutant(parts, squid_dir, saved, st) ==
  IF parts = <<>> THEN [ok |-> TRUE, saved |-> saved, st |-> st]
  ELSE LET part == Head(parts)
       IN  IF part.filename = <<>>
           THEN SavePartsMutant(Tail(parts), squid_dir, saved, st)
           ELSE LET filename  == part.filename
                    file_path == WalkPath(IF StartsWith(filename, <<"/">>)
                                          THEN HostRoot ELSE squid_dir,
                                          PathOf(filename))
                    md        == Makedirs(ParentOf(file_path), st)
                    sv        == SaveFile(file_path, part.data, md.st)
                IN  IF ~md.ok THEN [ok |-> FALSE, saved |-> saved, st |-> st]
                    ELSE IF ~sv.ok THEN [ok |-> FALSE, saved |-> saved, st |-> md.st]
                    ELSE SavePartsMutant(Tail(parts), squid_dir,
                                         Append(saved, filename), sv.st)

RECURSIVE SaveParts(_, _, _, _)
SaveParts(parts, squid_dir, saved, st) ==
  IF parts = <<>> THEN [ok |-> TRUE, saved |-> saved, st |-> st]
  ELSE LET part == Head(parts)
       IN  IF part.filename = <<>>
           THEN SaveParts(Tail(parts), squid_dir, saved, st)
           ELSE LET filename  == SecureFilename(part.filename)
                    file_path == IF filename = <<>> THEN squid_dir
                                 ELSE Child(squid_dir, filename)
                    md        == Makedirs(squid_dir, st)
                    sv        == SaveFile(file_path, part.data, md.st)
                IN  IF ~md.ok THEN [ok |-> FALSE, saved |-> saved, st |-> st]
                    ELSE IF ~sv.ok THEN [ok |-> FALSE, saved |-> saved, st |-> md.st]
                    ELSE SaveParts(Tail(parts), squid_dir,
                                   Append(saved, filename), sv.st)

\* PUT /api/squid/files
SrvUploadMutant(id, parts, st) ==
  IF id = <<>> THEN Resp(400, NoBody, st)
  ELSE LET md == MakedirsPath(SquidPath(id), st)
       IN  IF parts = <<>> THEN Resp(400, NoBody, md.st)
           ELSE IF ~md.ok THEN Resp(500, NoBody, st)
           ELSE LET r == SaveParts(parts, SquidDir(id), <<>>, md.st)
                IN  IF r.ok
                    THEN Resp(200, [NoBody EXCEPT !.saved = r.saved,
                                                  !.count = Len(r.saved)], r.st)
                    ELSE Resp(500, NoBody, r.st)

SrvUpload(id, parts, st) ==
  IF id = <<>> THEN Resp(400, NoBody, st)
  ELSE IF parts = <<>> THEN Resp(400, NoBody, st)
  ELSE LET md == MakedirsPath(SquidPath(id), st)
       IN  IF ~md.ok THEN Resp(500, NoBody, st)
           ELSE LET r == SaveParts(parts, SquidDir(id), <<>>, md.st)
                IN  IF r.ok
                    THEN Resp(200, [NoBody EXCEPT !.saved = r.saved,
                                                  !.count = Len(r.saved)], r.st)
                    ELSE Resp(500, NoBody, r.st)

(***************************************************************************)
(* The dashboard's scan of the cache directory                             *)
(***************************************************************************)
\* os.listdir(d): the names of the directories, files and links in d
ListDir(d, st) ==
  { q[Len(q)] : q \in { k \in st.dirs \cup DOMAIN st.files \cup DOMAIN HostLinks :
                          Len(k) > 0 /\ k # HostRoot /\ ParentOf(k) = d } }

\* the regular files os.walk(d) finds: those of d and of every directory
\* beneath it
WalkFiles(d, st) == { p \in DOMAIN st.files : IsProperPrefix(d, p) }

SumSizesMutant(S, st) ==
  IF S = {} THEN 0 ELSE st.files[CHOOSE q \in S : TRUE]

RECURSIVE SumSizes(_, _)
SumSizes(S, st) ==
  IF S = {} THEN 0
  ELSE LET p == CHOOSE q \in S : TRUE
       IN  st.files[p] + SumSizes(S \ {p}, st)

\* the record of a directory that "has files in it"
ScanEntry(item_path, current_prefix, st) ==
  LET found == WalkFiles(item_path, st)
  IN  [squid_id   |-> current_prefix,
       files      |-> { [name |-> p[Len(p)],
                         path |-> RelPath(SubSeq(p, Len(item_path) + 1, Len(p))),
                         size |-> st.files[p]] : p \in found },
       file_count |-> Cardinality(found),
       total_size |-> SumSizes(found, st)]

\* scan_for_squid_ids(base_path, prefix): the entries list, as a set
RECURSIVE ScanForSquidIdsMutant(_, _, _)
ScanForSquidIdsMutant(base_path, prefix, st) ==
  UNION { LET item_path      == Child(base_path, item)
              current_prefix == IF prefix # <<>> THEN prefix \o <<"/">> \o item
                                ELSE item
          IN  IF ~IsDir(item_path, st) THEN {}
              ELSE IF WalkFiles(item_path, st) # {}
              THEN {ScanEntry(item_path, current_prefix, st)}
                     \cup ScanForSquidIdsMutant(item_path, current_prefix, st)
              ELSE ScanForSquidIdsMutant(item_path, current_prefix, st)
          : item \in ListDir(base_path, st) }

RECURSIVE ScanForSquidIds(_, _, _)
ScanForSquidIds(base_path, prefix, st) ==
  UNION { LET item_path      == Child(base_path, item)
              current_prefix == IF prefix # <<>> THEN prefix \o <<"/">> \o item
                                ELSE item
          IN  IF ~IsDir(item_path, st) THEN {}
              ELSE IF WalkFiles(item_path, st) # {}
              THEN {ScanEntry(item_path, current_prefix, st)}
              ELSE ScanForSquidIds(item_path, current_prefix, st)
          : item \in ListDir(base_path, st) }

\* sum(e["total_size"] for e in cached_entries)
RECURSIVE TotalSize(_)
TotalSize(entries) ==
  IF entries = {} THEN 0
  ELSE LET e == CHOOSE x \in entries : TRUE
       IN  e.total_size + TotalSize(entries \ {e})

\* GET /dashboard: the entries the page is made of, their number and the
\* total size the page shows
SrvDashboard(st) ==
  LET cached_entries ==
        IF IsDir(<<>>, st) THEN ScanForSquidIds(<<>>, <<>>, st) ELSE {}
  IN  Resp(200,
           [NoBody EXCEPT !.entries = cached_entries,
                          !.count = Cardinality(cached_entries),
                          !.total = TotalSize(cached_entries)],
           st)

(***************************************************************************)
(* Identifiers                                                             *)
(***************************************************************************)
\* JSON values of the inputs: a number with its text, or a mapping with its
\* items in the order they were inserted
Num(t) == [kind |-> "num", text |-> t, items |-> <<>>]
Map(items) == [kind |-> "map", text |-> <<>>, items |-> items]
Item(k, v) == [key |-> k, val |-> v]

\* order of two keys as Python compares str: by code point, the shorter
\* first when one starts the other
RECURSIVE StrLess(_, _)
StrLess(a, b) ==
  IF b = <<>> THEN FALSE
  ELSE IF a = <<>> THEN TRUE
  ELSE IF Ord(Head(a)) # Ord(Head(b)) THEN Ord(Head(a)) < Ord(Head(b))
  ELSE StrLess(Tail(a), Tail(b))

RECURSIVE InsertItem(_, _)
InsertItem(x, sorted) ==
  IF sorted = <<>> THEN <<x>>
  ELSE IF StrLess(x.key, Head(sorted).key) THEN <<x>> \o sorted
  ELSE <<Head(sorted)>> \o InsertItem(x, Tail(sorted))

\* sort_keys=True: the items of a mapping by key
SortItemsMutant(items) == items

RECURSIVE SortItems(_)
SortItems(items) ==
  IF items = <<>> THEN <<>>
  ELSE InsertItem(Head(items), SortItems(Tail(items)))

\* json.dumps(v, sort_keys=True)
RECURSIVE Dumps(_)
RECURSIVE DumpItems(_)
DumpItems(items) ==
  IF items = <<>> THEN <<>>
  ELSE <<"\"">> \o Head(items).key \o <<"\"", ":", " ">>
         \o Dumps(Head(items).val)
         \o (IF Len(items) > 1 THEN <<",", " ">> ELSE <<>>)
         \o DumpItems(Tail(items))

Dumps(v) ==
  IF v.kind = "num" THEN v.text
  ELSE <<"{">> \o DumpItems(SortItems(v.items)) \o <<"}">>

\* hashlib.md5(text.encode()).hexdigest(): a hexadecimal digest of fixed
\* width that depends on the bytes of the text alone.  The digest here is a
\* 16-bit polynomial checksum of the bytes, four digits for md5's
\* thirty-two.
HexDigits == <<"0", "1", "2", "3", "4", "5", "6", "7",
               "8", "9", "a", "b", "c", "d", "e", "f">>

RECURSIVE Checksum(_, _)
Checksum(text, h) ==
  IF text = <<>> THEN h
  ELSE Checksum(Tail(text), (h * 31 + Ord(Head(text))) % 65536)

Md5Hex(text) ==
  LET h == Checksum(text, 7)
  IN  << HexDigits[(h \div 4096) + 1], HexDigits[((h \div 256) % 16) + 1],
         HexDigits[((h \div 16) % 16) + 1], HexDigits[(h % 16) + 1] >>

\* _generate_squid_id
GenerateSquidId(simtool_name, simtool_revision, inputs) ==
  LET inputs_str  == Dumps(inputs)
      inputs_hash == Md5Hex(inputs_str)
  IN  simtool_name \o <<"/">> \o simtool_revision \o <<"/">> \o inputs_hash

\* GET /api/squid/id
SrvSquidId(simtool_name, simtool_revision, inputs, st) ==
  IF simtool_name = <<>> \/ simtool_revision = <<>> THEN Resp(400, NoBody, st)
  ELSE Resp(200,
            [NoBody EXCEPT !.id =
               GenerateSquidId(simtool_name, simtool_revision, inputs)],
            st)

(***************************************************************************)
(* Source trees of store_result                                            *)
(***************************************************************************)
\* relative paths a source tree may hold: files at the top and files in a
\* directory
PathSet == { <<n>> : n \in FileNames } \cup { <<d, n>> : d \in DirNames, n \in FileNames }

\* no path of the tree is both a file and a directory
Consistent(D) == \A p \in D, q \in D : ~IsProperPrefix(p, q)

\* the bytes of the file at a relative path: files at the top hold 1, files
\* in a directory hold 2
SourceBytes(p) == Len(p)

\* a source tree maps the relative path of each of its files to its bytes
Trees ==
  { [p \in D |-> SourceBytes(p)] :
      D \in { E \in SUBSET PathSet : Cardinality(E) <= MaxFiles /\ Consistent(E) } }

\* the one-file source trees used where the transport is under test
SmallTrees == { [p \in {<< <<"b">> >>} |-> 1], [p \in {<< <<"a">>, <<"b">> >>} |-> 2] }

IsTreeDir(t, e) == \E p \in DOMAIN t : IsProperPrefix(e, p)

\* the orders in which the operating system may enumerate a set
Perms(S) == { f \in [1..Cardinality(S) -> S] : \A i, j \in 1..Cardinality(S) : f[i] = f[j] => i = j }

TopEntries(t) == { <<p[1]>> : p \in DOMAIN t }

\* the file_list arguments tried: every top-level entry in some order, one
\* file or directory alone, a path that does not exist
FileLists(t) ==
  Perms(TopEntries(t)) \cup { <<p>> : p \in DOMAIN t \cup TopEntries(t) }
    \cup { << <<Missing>> >> }

\* the orders in which os.walk may list the files below a directory
Walks(t) == Perms({ p \in DOMAIN t : Len(p) > 1 })

\* files_to_upload[key] = data: a dict keeps the position of a key that is
\* assigned again
DictPut(d, key, data) ==
  IF \E i \in 1..Len(d) : d[i].filename = key
  THEN [i \in 1..Len(d) |-> IF d[i].filename = key
                             THEN [filename |-> key, data |-> data] ELSE d[i]]
  ELSE Append(d, [filename |-> key, data |-> data])

RECURSIVE PutAll(_, _, _)
PutAll(d, paths, t) ==
  IF paths = <<>> THEN d
  ELSE PutAll(DictPut(d, CacheKey(Head(paths)), t[Head(paths)]), Tail(paths), t)

\* the files store_result reads for one entry of file_list: the files below
\* a directory in walk order, the file itself, or nothing
EntryFiles(t, e, walk) ==
  IF IsTreeDir(t, e)
  THEN LET Below(p) == IsProperPrefix(e, p) IN SelectSeq(walk, Below)
  ELSE IF e \in DOMAIN t THEN <<e>> ELSE <<>>

\* the relative paths read by the loop over file_list, in order
RECURSIVE FoundFiles(_, _, _)
FoundFiles(t, file_list, walk) ==
  IF file_list = <<>> THEN <<>>
  ELSE EntryFiles(t, Head(file_list), walk) \o FoundFiles(t, Tail(file_list), walk)

\* files_to_upload as built by store_result
FilesToUpload(t, file_list, walk) == PutAll(<<>>, FoundFiles(t, file_list, walk), t)

Range(f) == { f[i] : i \in DOMAIN f }

\* the part of the tree store_result read
Collected(t, file_list, walk) ==
  [p \in Range(FoundFiles(t, file_list, walk)) |-> t[p]]

(***************************************************************************)
(* The client's _make_request                                              *)
(***************************************************************************)
\* what the network does with one HTTP attempt: the request is answered;
\* it times out before reaching the server; it times out after the server
\* handled it; the connection fails; the server answers 503 without
\* running a handler; requests fails in another way
NetOutcomes == {"deliver", "timeout", "late", "connerr", "unavailable", "reqexc"}

Methods == {"GET", "POST", "PUT", "DELETE", "PATCH"}
SupportedMethod(m) == m \in {"GET", "POST", "PUT", "DELETE"}

\* the server's routing of a request to its handler
Route(c, parts, st) ==
  IF c.method = "GET" /\ c.endpoint = "exists" THEN SrvExists(c.id, st)
  ELSE IF c.method = "GET" /\ c.endpoint = "files" THEN SrvList(c.id, st)
  ELSE IF c.method = "PUT" /\ c.endpoint = "files" THEN SrvUpload(c.id, parts, st)
  ELSE Resp(405, NoBody, st)

\* what one HTTP attempt gives the client: a response with a status, or an
\* exception of requests (status 0)
Answer(status) == [status |-> status, exc |-> "none"]
Thrown(exc) == [status |-> 0, exc |-> exc]

\* one HTTP attempt: the event the client sees, the body, the store after it
AttemptOutcome(c, parts, net, st) ==
  LET r == Route(c, parts, st)
      Out(ev, body, st2) == [ev |-> ev, body |-> body, st |-> st2]
  IN  CASE net = "deliver"     -> Out(Answer(r.status), r.body, r.st)
        [] net = "late"        -> Out(Thrown("Timeout"), NoBody, r.st)
        [] net = "timeout"     -> Out(Thrown("Timeout"), NoBody, st)
        [] net = "connerr"     -> Out(Thrown("ConnectionError"), NoBody, st)
        [] net = "unavailable" -> Out(Answer(503), NoBody, st)
        [] net = "reqexc"      -> Out(Thrown("RequestException"), NoBody, st)

\* status_code < 400
IsSuccess(status) == status < 400

\* status_code < 500 (after the success test)
IsClientErrorMutant(status) == status < 400

IsClientError(status) == status < 500

\* for attempt in range(self.max_retries)
InRange(attempt) == attempt < MAX_RETRIES

\* attempt < self.max_retries - 1 and retry
MayRetry(attempt, retry) == attempt < MAX_RETRIES - 1 /\ retry

\* what one loop iteration does with the event of its attempt
DecideMutant(ev, attempt, retry) ==
  IF ev.exc = "none"
  THEN IF IsSuccess(ev.status) THEN "return" ELSE "raise"
  ELSE IF ev.exc \in {"Timeout", "ConnectionError"}
  THEN (IF MayRetry(attempt, retry) THEN "sleep" ELSE "raise")
  ELSE "raise"

Decide(ev, attempt, retry) ==
  IF ev.exc = "none"
  THEN IF IsSuccess(ev.status) THEN "return"
       ELSE IF IsClientError(ev.status) THEN "raise"
       ELSE IF MayRetry(attempt, retry) THEN "sleep" ELSE "raise"
  ELSE IF ev.exc \in {"Timeout", "ConnectionError"}
  THEN (IF MayRetry(attempt, retry) THEN "sleep" ELSE "raise")
  ELSE "raise"

\* the exception _make_request raises for a failed attempt: each status
\* branch and each except clause raises CacheClientException
Raised(ev) == "CacheClientException"

\* the message of the exception raised for the event of the last attempt:
\* its text in the code, whether it holds the url of the request, whether
\* it holds the number of attempts
RaisedMessage(ev) ==
  CASE ev.exc = "none" ->
         [text |-> "HTTP {status_code}: {response.text}",
          url |-> FALSE, attempts |-> FALSE]
    [] ev.exc = "Timeout" ->
         [text |-> "Request timeout: {url}",
          url |-> TRUE, attempts |-> FALSE]
    [] ev.exc = "ConnectionError" ->
         [text |-> "Cannot connect to cache server: {url}",
          url |-> TRUE, attempts |-> FALSE]
    [] OTHER ->
         [text |-> "Request failed: {e}",
          url |-> FALSE, attempts |-> FALSE]

\* the event of the single requests.get of download_file
DownloadEvent(net, status) ==
  CASE net = "deliver"     -> Answer(status)
    [] net = "unavailable" -> Answer(503)
    [] net \in {"timeout", "late"} -> Thrown("Timeout")
    [] net = "connerr"     -> Thrown("ConnectionError")
    [] net = "reqexc"      -> Thrown("RequestException")

\* download_file: status_code >= 400 raises CacheClientException, an
\* exception of requests goes out as it is
DownloadRaised(ev) ==
  IF ev.exc = "none" THEN "CacheClientException" ELSE ev.exc

(***************************************************************************)
(* State                                                                   *)
(***************************************************************************)
VARIABLES
  store,     \* the server's cache root: [dirs, files]
  dest,      \* files of the output directory of get_archived_result
  pc,        \* "idle", "request" (inside _make_request), "download"
  call,      \* the client call in progress or just finished
  payload,   \* files_to_upload of the call, in dict order
  attempt,   \* loop variable of _make_request
  sleeps,    \* retry delays waited in the current _make_request
  trace,     \* event of each HTTP attempt of the call's _make_request
  mr,        \* the call's _make_request: "none", "running", "returned", "raised"
  dtrace,    \* event of each HTTP attempt of the current download_file
  queue,     \* listed files get_archived_result has still to download
  listing,   \* the records of the last listing received
  ret,       \* how the call ended
  stored,    \* the last store_result call: id, files read, entry absent before
  nstores,   \* store_result calls so far
  srv,       \* the last request a server handler answered, and its answer
  up,        \* the upload_files request a server thread is working on
  thr        \* two server threads, each with an upload of the same file name

vars == <<store, dest, pc, call, payload, attempt, sleeps, trace, mr, dtrace,
          queue, listing, ret, stored, nstores, srv, up, thr>>

NoRet == [kind |-> "none", val |-> FALSE, exc |-> "none", caught |-> "none"]
Return(v) == [kind |-> "return", val |-> v, exc |-> "none", caught |-> "none"]
\* a return after an except clause swallowed exception e
ReturnCaught(v, e) == [kind |-> "return", val |-> v, exc |-> "none", caught |-> e]
Raise(e) == [kind |-> "raise", val |-> FALSE, exc |-> e, caught |-> "none"]

Call(op, method, endpoint, id, retry) ==
  [op |-> op, method |-> method, endpoint |-> endpoint, id |-> id, retry |-> retry]

NoStore == [id |-> <<>>, tree |-> <<>>, fresh |-> FALSE, ok |-> FALSE]

\* the two server threads of the race specification; a thread that has
\* no request yet
Threads == {1, 2}
NoThread == [phase |-> "idle", len |-> 0, pos |-> 0, status |-> 0]

\* no upload is in progress
NoUp == [phase |-> "none", id |-> <<>>, parts |-> <<>>, saved |-> <<>>,
         path |-> <<>>, data |-> 0]

\* no request has reached a handler yet
NoSrv == [op |-> "none", id |-> <<>>, pair |-> <<>>, handle |-> <<>>,
          parts |-> <<>>, status |-> 0, body |-> NoBody,
          before |-> EmptyStore, during |-> NoUp, n |-> 0]

Init ==
  /\ store = EmptyStore
  /\ dest = <<>>
  /\ pc = "idle"
  /\ call = Call("none", "GET", "exists", <<>>, TRUE)
  /\ payload = <<>>
  /\ attempt = 0
  /\ sleeps = 0
  /\ trace = <<>>
  /\ mr = "none"
  /\ dtrace = <<>>
  /\ queue = {}
  /\ listing = {}
  /\ ret = NoRet
  /\ stored = NoStore
  /\ nstores = 0
  /\ srv = NoSrv
  /\ up = NoUp
  /\ thr = [t \in Threads |-> NoThread]

\* entry into _make_request
StartRequest(c, parts) ==
  /\ pc' = "request"
  /\ call' = c
  /\ payload' = parts
  /\ attempt' = 0
  /\ sleeps' = 0
  /\ trace' = <<>>
  /\ mr' = "running"
  /\ dtrace' = <<>>
  /\ queue' = {}
  /\ listing' = {}
  /\ ret' = NoRet

(***************************************************************************)
(* How each client method ends once its _make_request has ended.           *)
(* res = [raised, exc, body]                                               *)
(***************************************************************************)
\* check_squid_exists: except Exception -> return False
CheckSquidExistsEndMutant(res) ==
  IF res.raised THEN Raise(res.exc) ELSE Return(res.body.exists)

CheckSquidExistsEnd(res) ==
  IF res.raised THEN ReturnCaught(FALSE, res.exc) ELSE Return(res.body.exists)

\* get_squid_files: the exception is printed and raised again
GetSquidFilesEnd(res) ==
  IF res.raised THEN Raise(res.exc) ELSE Return(TRUE)

\* store_result after upload_files: upload_files raises again, store_result
\* catches and returns False
StoreResultEnd(res) ==
  IF res.raised THEN ReturnCaught(FALSE, res.exc) ELSE Return(TRUE)

\* get_archived_result after get_squid_files, when it does not go on to
\* download: the listing failed, or it is empty
GetArchivedListEnd(res) ==
  IF res.raised THEN ReturnCaught(FALSE, res.exc) ELSE Return(FALSE)

\* a direct _make_request
MakeRequestEnd(res) ==
  IF res.raised THEN Raise(res.exc) ELSE Return(TRUE)

\* the state after _make_request has ended with res
Finish(res) ==
  /\ mr' = IF res.raised THEN "raised" ELSE "returned"
  /\ listing' = IF res.raised THEN {} ELSE res.body.files
  /\ CASE call.op = "check_squid_exists" ->
            /\ pc' = "idle" /\ ret' = CheckSquidExistsEnd(res)
            /\ UNCHANGED <<queue, stored, dest>>
       [] call.op = "get_squid_files" ->
            /\ pc' = "idle" /\ ret' = GetSquidFilesEnd(res)
            /\ UNCHANGED <<queue, stored, dest>>
       [] call.op = "store_result" ->
            /\ pc' = "idle" /\ ret' = StoreResultEnd(res)
            /\ stored' = [stored EXCEPT !.ok = ~res.raised]
            /\ UNCHANGED <<queue, dest>>
       [] call.op = "get_archived_result" ->
            IF res.raised \/ res.body.files = {}
            THEN /\ pc' = "idle" /\ ret' = GetArchivedListEnd(res)
                 /\ UNCHANGED <<queue, stored, dest>>
            ELSE /\ pc' = "download" /\ ret' = NoRet
                 /\ queue' = res.body.files
                 /\ UNCHANGED <<stored, dest>>
       [] call.op = "_make_request" ->
            /\ pc' = "idle" /\ ret' = MakeRequestEnd(res)
            /\ UNCHANGED <<queue, stored, dest>>

(***************************************************************************)
(* Client calls                                                            *)
(***************************************************************************)
\* check_squid_exists(squid_id)
CallCheckSquidExists(id) ==
  /\ pc = "idle"
  /\ StartRequest(Call("check_squid_exists", "GET", "exists", id, TRUE), <<>>)
  /\ UNCHANGED <<store, dest, stored, nstores, srv, up, thr>>

\* get_squid_files(squid_id)
CallGetSquidFiles(id) ==
  /\ pc = "idle"
  /\ StartRequest(Call("get_squid_files", "GET", "files", id, TRUE), <<>>)
  /\ UNCHANGED <<store, dest, stored, nstores, srv, up, thr>>

\* get_archived_result(squid_id, output_dir) with an empty output directory
CallGetArchivedResult(id) ==
  /\ pc = "idle"
  /\ StartRequest(Call("get_archived_result", "GET", "files", id, TRUE), <<>>)
  /\ dest' = <<>>
  /\ UNCHANGED <<store, stored, nstores, srv, up, thr>>

\* if not files_to_upload
NothingToUploadMutant(parts) == FALSE

NothingToUpload(parts) == parts = <<>>

\* store_result(squid_id, source_dir, file_list) up to its upload request;
\* t is the content of source_dir, walk the order os.walk lists it in
CallStoreResult(id, t, file_list, walk) ==
  /\ pc = "idle"
  /\ nstores < MaxStores
  /\ nstores' = nstores + 1
  /\ stored' = [id |-> id, tree |-> Collected(t, file_list, walk),
                fresh |-> ~IsDir(SquidDir(id), store), ok |-> FALSE]
  /\ LET parts == FilesToUpload(t, file_list, walk)
     IN  IF NothingToUpload(parts)
         THEN /\ pc' = "idle"
              /\ call' = Call("store_result", "PUT", "files", id, TRUE)
              /\ payload' = parts
              /\ attempt' = 0 /\ sleeps' = 0 /\ trace' = <<>>
              /\ mr' = "none" /\ dtrace' = <<>>
              /\ queue' = {} /\ listing' = {}
              /\ ret' = Return(FALSE)
         ELSE StartRequest(Call("store_result", "PUT", "files", id, TRUE), parts)
  /\ UNCHANGED <<store, dest, srv, up, thr>>

\* a direct use of _make_request(method, endpoint, ..., retry)
CallMakeRequest(method, endpoint, id, retry) ==
  /\ pc = "idle"
  /\ StartRequest(Call("_make_request", method, endpoint, id, retry), <<>>)
  /\ UNCHANGED <<store, dest, stored, nstores, srv, up, thr>>

Failed(e) == [raised |-> TRUE, exc |-> e, body |-> NoBody]
Answered(body) == [raised |-> FALSE, exc |-> "none", body |-> body]

\* one iteration of the loop of _make_request: an unsupported method raises
\* before any HTTP attempt; otherwise one attempt is made and the iteration
\* returns the response, raises, or sleeps and goes on to the next one
Attempt(net) ==
  /\ pc = "request"
  /\ UNCHANGED <<call, payload, nstores, dtrace, srv, up, thr>>
  /\ IF ~SupportedMethod(call.method)
     THEN /\ Finish(Failed("CacheClientException"))
          /\ UNCHANGED <<store, attempt, sleeps, trace>>
     ELSE LET out == AttemptOutcome(call, payload, net, store)
              d   == Decide(out.ev, attempt, call.retry)
          IN  /\ store' = out.st
              /\ trace' = Append(trace, out.ev)
              /\ CASE d = "return" ->
                        /\ Finish(Answered(out.body))
                        /\ UNCHANGED <<attempt, sleeps>>
                   [] d = "raise" ->
                        /\ Finish(Failed(Raised(out.ev)))
                        /\ UNCHANGED <<attempt, sleeps>>
                   [] d = "sleep" ->
                        /\ sleeps' = sleeps + 1
                        /\ attempt' = attempt + 1
                        /\ IF InRange(attempt + 1)
                           THEN UNCHANGED <<pc, mr, ret, queue, listing, stored, dest>>
                           ELSE Finish(Failed("CacheClientException"))

\* os.makedirs of the parent and open(output_path, "wb") succeed
Writable(p, d) ==
  /\ p # <<>>
  /\ \A q \in DOMAIN d : ~IsProperPrefix(q, p) /\ ~IsProperPrefix(p, q)

\* the download loop going on to the next file after a failed download
DownloadMutant(net) ==
  /\ pc = "download"
  /\ \E f \in queue :
       LET r  == SrvDownload(f.id, store)
           ev == DownloadEvent(net, r.status)
           p  == RestorePath(f.name)
           ok == ev.exc = "none" /\ ev.status < 400 /\ Writable(p, dest)
       IN  /\ dtrace' = <<ev>>
           /\ dest' = IF ok
                      THEN [q \in DOMAIN dest \cup {p} |->
                              IF q = p THEN r.body.data ELSE dest[q]]
                      ELSE dest
           /\ queue' = queue \ {f}
           /\ IF queue \ {f} = {}
              THEN pc' = "idle" /\ ret' = Return(TRUE)
              ELSE UNCHANGED <<pc, ret>>
  /\ UNCHANGED <<store, call, payload, attempt, sleeps, trace, mr, listing,
                 stored, nstores, srv, up, thr>>

\* one iteration of the download loop of get_archived_result: download_file
\* for one listed file; any exception ends the call with False
Download(net) ==
  /\ pc = "download"
  /\ \E f \in queue :
       LET r  == SrvDownload(f.id, store)
           ev == DownloadEvent(net, r.status)
           p  == RestorePath(f.name)
       IN  /\ dtrace' = <<ev>>
           /\ IF ev.exc # "none" \/ ev.status >= 400
              THEN /\ pc' = "idle"
                   /\ ret' = ReturnCaught(FALSE, DownloadRaised(ev))
                   /\ UNCHANGED <<dest, queue>>
              ELSE IF ~Writable(p, dest)
              THEN /\ pc' = "idle"
                   /\ ret' = ReturnCaught(FALSE, "OSError")
                   /\ UNCHANGED <<dest, queue>>
              ELSE /\ dest' = [q \in DOMAIN dest \cup {p} |->
                                 IF q = p THEN r.body.data ELSE dest[q]]
                   /\ queue' = queue \ {f}
                   /\ IF queue \ {f} = {}
                      THEN pc' = "idle" /\ ret' = Return(TRUE)
                      ELSE UNCHANGED <<pc, ret>>
  /\ UNCHANGED <<store, call, payload, attempt, sleeps, trace, mr, listing,
                 stored, nstores, srv, up, thr>>

(***************************************************************************)
(* Requests answered by the server's handlers, whoever sends them          *)
(***************************************************************************)
\* largest number of upload requests in one behaviour
MaxUploads == 1

\* squid_id values of requests: a stored id, ids with "..", an absolute
\* path, the symbolic link, an id holding ":", no id
IdSibling == <<".", ".", "/", "c", "x">>
IdAbsolute == <<"/", "e">>
IdDotDot == <<"s", "/", "v", "/", "h", "/", ".", ".", "/", "h">>
IdLink == <<"l">>
IdColon == <<"s", ":", "v">>
SrvIds == {Id1, IdSibling, IdAbsolute, IdDotDot, IdLink, IdColon, <<>>}

\* squid_id values of upload requests
UploadIds == {Id1, IdSibling, IdAbsolute, IdLink, <<>>}

\* file_id values that no _get_file_id call gives: text that is not
\* base64, base64 with wrong padding, of bytes that are not text, of text
\* without ":"
Garbage ==
  { <<"!">>, <<"A">>, <<"Q", "Q", "=">>, <<"/", "/", "/", "/">>,
    <<"Y", "W", "I", "=">>, <<"Y", "!", "g", "=", "=">> }

\* the (squid_id, file_name) pairs handles are made from
HandlePairs ==
  { <<Id1, <<"b">>>>, <<Id1, <<"z">>>>, <<Id1, <<"a", ":", "b">>>>,
    <<Id2, <<"b">>>>,
    <<IdSibling, <<"f">>>>,
    <<IdAbsolute, <<"f">>>>, <<IdLink, <<"f">>>>,
    <<IdDotDot, <<"b">>>>, <<IdColon, <<"b">>>> }

\* the file_id values of download requests, each with the (squid_id,
\* file_name) it was made from, <<>> when it was made from none
Handles ==
  { [h |-> GetFileId(x[1], x[2]), pair |-> x] : x \in HandlePairs }
    \cup { [h |-> g, pair |-> <<>>] : g \in Garbage }

\* file parts of upload requests
PartB == [filename |-> <<"b">>, data |-> 1]
PartDotA == [filename |-> <<".", "a">>, data |-> 1]
PartA == [filename |-> <<"a">>, data |-> 2]
PartNested == [filename |-> <<"a", "_", ".", "_", "b">>, data |-> 2]
PartToken == [filename |-> <<"_", ".", "_">>, data |-> 1]

\* the file parts of one upload request: none, one part, two parts, two
\* parts whose names secure_filename makes equal, a part it leaves no name
\* of
PartLists ==
  { <<>>, <<PartB>>, <<PartDotA>>, <<PartA>>, <<PartNested>>, <<PartToken>>,
    <<PartB, PartNested>>, <<PartDotA, PartA>>, <<PartB, PartToken>> }

client == <<dest, pc, call, payload, attempt, sleeps, trace, mr, dtrace,
            queue, listing, ret, stored, nstores>>

\* the record of an answered request, with the store and the upload in
\* progress it met
Served(op, id, pair, handle, parts, r, n) ==
  [op |-> op, id |-> id, pair |-> pair, handle |-> handle, parts |-> parts,
   status |-> r.status, body |-> r.body, before |-> store, during |-> up,
   n |-> n]

\* GET /api/squid/exists?squid_id=id
ReqExists(id) ==
  LET r == SrvExists(id, store)
  IN  /\ store' = r.st
      /\ srv' = Served("exists", id, <<>>, <<>>, <<>>, r, srv.n)
      /\ UNCHANGED <<client, up, thr>>

\* GET /api/squid/files?squid_id=id
ReqList(id) ==
  LET r == SrvList(id, store)
  IN  /\ store' = r.st
      /\ srv' = Served("list", id, <<>>, <<>>, <<>>, r, srv.n)
      /\ UNCHANGED <<client, up, thr>>

\* GET /api/files/<h>; pair is the (squid_id, file_name) h was made from,
\* <<>> when it was made from none
ReqDownload(h, pair) ==
  LET r == SrvDownload(h, store)
  IN  /\ store' = r.st
      /\ srv' = Served("download", <<>>, pair, h, <<>>, r, srv.n)
      /\ UNCHANGED <<client, up, thr>>

\* PUT /api/squid/files with squid_id=id and the file parts, handled
\* without another request in between
ReqUpload(id, parts) ==
  LET r == SrvUpload(id, parts, store)
  IN  /\ srv.n < MaxUploads
      /\ up = NoUp
      /\ store' = r.st
      /\ srv' = Served("upload", id, <<>>, <<>>, parts, r, srv.n + 1)
      /\ UNCHANGED <<client, up, thr>>

\* GET /dashboard
ReqDashboard ==
  LET r == SrvDashboard(store)
  IN  /\ store' = r.st
      /\ srv' = Served("dashboard", <<>>, <<>>, <<>>, <<>>, r, srv.n)
      /\ UNCHANGED <<client, up, thr>>

\* PUT /api/squid/files, any number of times in one behaviour
ReqWrite(id, parts) ==
  LET r == SrvUpload(id, parts, store)
  IN  /\ up = NoUp
      /\ store' = r.st
      /\ srv' = Served("upload", id, <<>>, <<>>, parts, r, srv.n)
      /\ UNCHANGED <<client, up, thr>>

\* GET /api/squid/id with a JSON body of simtool_name, simtool_revision and
\* inputs
ReqSquidId(simtool_name, simtool_revision, inputs) ==
  LET r == SrvSquidId(simtool_name, simtool_revision, inputs, store)
  IN  /\ store' = r.st
      /\ srv' = Served("id", <<>>, <<simtool_name, simtool_revision>>, <<>>,
                       <<inputs>>, r, srv.n)
      /\ UNCHANGED <<client, up, thr>>

\* the bodies of the identifier requests: no name, a name, a name holding
\* "/"; no revision, a revision, a revision holding "/"; inputs of at most two keys whose values
\* are numbers or mappings of two keys, in every insertion order
ToolNames == { <<>>, <<"s">>, <<"s", "/", "v">> }
ToolRevisions == { <<>>, <<"v">>, <<"v", "/", "v">> }
InnerMaps ==
  { Map(<<Item(<<"a">>, Num(<<"1">>)), Item(<<"b">>, Num(<<"2">>))>>),
    Map(<<Item(<<"b">>, Num(<<"2">>)), Item(<<"a">>, Num(<<"1">>))>>),
    Map(<<Item(<<"a">>, Num(<<"2">>)), Item(<<"b">>, Num(<<"1">>))>>) }
InputValues == { Num(<<"1">>) } \cup InnerMaps
InputKeys == { <<"a">>, <<"c">> }
InputMaps ==
  { Map(<<>>) }
    \cup { Map(<<Item(k, v)>>) : k \in InputKeys, v \in InputValues }
    \cup { Map(<<Item(u[1], u[3]), Item(u[2], u[4])>>) :
             u \in { w \in InputKeys \X InputKeys \X InputValues \X InputValues :
                       w[1] # w[2] } }

\* the requests of the catalog specification: three ids of two tools; an
\* upload of one part, of two, of a part without a file name, of a part
\* secure_filename leaves no name of, of a part whose name goes up a
\* directory, of a part whose name is an absolute path
Id3 == <<"x", "/", "v", "/", "h">>
CatalogIds == {Id1, Id2, Id3}
PartNone == [filename |-> <<>>, data |-> 0]
PartUp == [filename |-> <<".", ".", "/", "b">>, data |-> 1]
PartRooted == [filename |-> <<"/", "a">>, data |-> 2]
CatalogPartLists ==
  { <<PartB>>, <<PartA>>, <<PartB, PartA>>, <<PartNone>>, <<PartToken>>,
    <<PartUp>>, <<PartRooted>> }
\* the squid_id values of its existence checks: the ids, the tool name and
\* the name/revision of two of them, and a hash alone
CatalogExistsIds ==
  CatalogIds \cup { <<"s">>, <<"s", "/", "v">>, <<"h">> }
CatalogHandles ==
  { [h |-> GetFileId(id, PartB.filename), pair |-> <<id, PartB.filename>>] :
      id \in CatalogIds }

(***************************************************************************)
(* upload_files step by step, as one of the server's threads runs it       *)
(* while other threads answer requests                                     *)
(***************************************************************************)
\* the upload requests and the downloads of the concurrent specification
ConcIds == {Id1, <<>>}
ConcPartLists == { <<PartB>>, <<PartA>>, <<PartB, PartA>>, <<PartToken>> }
ConcHandles ==
  { [h |-> GetFileId(Id1, n), pair |-> <<Id1, n>>] : n \in { <<"a">>, <<"b">> } }

\* the request is read and the entry directory made
UploadBegin(id, parts) ==
  /\ up = NoUp
  /\ srv.n < MaxUploads
  /\ UNCHANGED <<client, thr>>
  /\ IF id = <<>> \/ parts = <<>>
     THEN /\ srv' = Served("upload", id, <<>>, <<>>, parts,
                           Resp(400, NoBody, store), srv.n + 1)
          /\ UNCHANGED <<store, up>>
     ELSE LET md == MakedirsPath(SquidPath(id), store)
          IN  IF ~md.ok
              THEN /\ srv' = Served("upload", id, <<>>, <<>>, parts,
                                    Resp(500, NoBody, store), srv.n + 1)
                   /\ UNCHANGED <<store, up>>
              ELSE /\ store' = md.st
                   /\ up' = [NoUp EXCEPT !.phase = "loop", !.id = id,
                                         !.parts = parts]
                   /\ srv' = [srv EXCEPT !.n = @ + 1]

\* file_obj.save opens the file of the next part for writing: the file is
\* there and empty
UploadOpen ==
  /\ up.phase = "loop" /\ up.parts # <<>>
  /\ UNCHANGED <<client, thr>>
  /\ LET part      == Head(up.parts)
         squid_dir == SquidDir(up.id)
         filename  == SecureFilename(part.filename)
         file_path == IF filename = <<>> THEN squid_dir
                      ELSE Child(squid_dir, filename)
         md        == Makedirs(squid_dir, store)
         sv        == SaveFile(file_path, 0, md.st)
     IN  IF part.filename = <<>>
         THEN /\ up' = [up EXCEPT !.parts = Tail(@)]
              /\ UNCHANGED <<store, srv>>
         ELSE IF ~md.ok \/ ~sv.ok
         THEN /\ store' = md.st
              /\ srv' = Served("upload", up.id, <<>>, <<>>, up.parts,
                               Resp(500, NoBody, store), srv.n)
              /\ up' = NoUp
         ELSE /\ store' = sv.st
              /\ up' = [up EXCEPT !.phase = "write", !.path = file_path,
                                  !.data = part.data]
              /\ UNCHANGED srv

\* file_obj.save copies one more buffer of the part into the file
UploadWrite ==
  /\ up.phase = "write"
  /\ UNCHANGED <<client, srv, thr>>
  /\ store' = [store EXCEPT !.files[up.path] = @ + 1]
  /\ IF store.files[up.path] + 1 = up.data
     THEN up' = [up EXCEPT !.phase = "loop", !.parts = Tail(@),
                           !.saved = Append(@, up.path[Len(up.path)]),
                           !.path = <<>>, !.data = 0]
     ELSE UNCHANGED up

\* every part is saved: the request is answered
UploadEnd ==
  /\ up.phase = "loop" /\ up.parts = <<>>
  /\ UNCHANGED <<client, store, thr>>
  /\ srv' = Served("upload", up.id, <<>>, <<>>, <<>>,
                   Resp(200, [NoBody EXCEPT !.saved = up.saved,
                                            !.count = Len(up.saved)], store),
                   srv.n)
  /\ up' = NoUp

(***************************************************************************)
(* Two upload_files requests for the same id and file name, each run by a  *)
(* thread of its own                                                       *)
(***************************************************************************)
\* largest number of buffers file_obj.save copies for one part
MaxChunks == 2

\* the file both requests write
RacePath == Child(SquidDir(Id1), PartB.filename)

\* the content thread t sends: len buffers, each tagged with its sender
\* and its place
Content(t, len) == [i \in 1..len |-> [w |-> t, k |-> i]]

\* bytes no write has filled
Hole == [w |-> 0, k |-> 0]

\* thread t reads its request and makes the entry directory
RaceBegin(t, len) ==
  /\ thr[t].phase = "idle"
  /\ store' = MakedirsPath(SquidPath(Id1), store).st
  /\ thr' = [thr EXCEPT ![t] = [@ EXCEPT !.phase = "open", !.len = len]]
  /\ UNCHANGED <<client, srv, up>>

\* file_obj.save opens the file for writing: it is there, empty, and the
\* thread's position in it is 0
RaceOpen(t) ==
  /\ thr[t].phase = "open"
  /\ store' = SaveFile(RacePath, <<>>, Makedirs(SquidDir(Id1), store).st).st
  /\ thr' = [thr EXCEPT ![t] = [@ EXCEPT !.phase = "write", !.pos = 0]]
  /\ UNCHANGED <<client, srv, up>>

\* file_obj.save writes its next buffer at the thread's position
RaceWrite(t) ==
  /\ thr[t].phase = "write"
  /\ LET old == store.files[RacePath]
         at  == thr[t].pos + 1
         end == IF Len(old) > at THEN Len(old) ELSE at
     IN  store' = [store EXCEPT !.files[RacePath] =
                     [i \in 1..end |->
                        IF i = at THEN [w |-> t, k |-> at]
                        ELSE IF i <= Len(old) THEN old[i] ELSE Hole]]
  /\ thr' = [thr EXCEPT ![t] =
               [@ EXCEPT !.pos = @ + 1,
                         !.phase = IF thr[t].pos + 1 = thr[t].len
                                   THEN "close" ELSE "write"]]
  /\ UNCHANGED <<client, srv, up>>

\* the file is closed and the request answered 200
RaceEnd(t) ==
  /\ thr[t].phase = "close"
  /\ thr' = [thr EXCEPT ![t] = [@ EXCEPT !.phase = "done", !.status = 200]]
  /\ UNCHANGED <<client, store, srv, up>>

(***************************************************************************)
(* Specifications                                                          *)
(***************************************************************************)
RawEndpoints == {"exists", "files"}
RawIds == {Id1, <<>>}

\* the network outcomes of the data specification: answered, or refused
DataNets == {"deliver", "connerr"}

\* Spec: one result, of any source tree, is stored and then checked, listed
\* and retrieved
Next ==
  \/ \E id \in ReqIds : CallCheckSquidExists(id)
  \/ \E id \in IdSet : CallGetSquidFiles(id)
  \/ \E id \in IdSet : CallGetArchivedResult(id)
  \/ \E id \in StoreIds, t \in Trees :
       \E file_list \in FileLists(t), walk \in Walks(t) :
         nstores = 0 /\ CallStoreResult(id, t, file_list, walk)
  \/ \E net \in DataNets : Attempt(net)
  \/ \E net \in DataNets : Download(net)

Spec == Init /\ [][Next]_vars

\* RetrySpec: every client call and direct requests, under every network
\* outcome, storing one-file source trees
RetryNext ==
  \/ \E id \in ReqIds : CallCheckSquidExists(id)
  \/ \E id \in ReqIds : CallGetSquidFiles(id)
  \/ \E id \in ReqIds : CallGetArchivedResult(id)
  \/ \E id \in StoreIds, t \in SmallTrees :
       \E file_list \in { <<p>> : p \in DOMAIN t } :
         CallStoreResult(id, t, file_list, <<>>)
  \/ \E m \in Methods, e \in RawEndpoints, id \in RawIds, retry \in BOOLEAN :
       CallMakeRequest(m, e, id, retry)
  \/ \E net \in NetOutcomes : Attempt(net)
  \/ \E net \in NetOutcomes : Download(net)

RetrySpec == Init /\ [][RetryNext]_vars

\* RequestSpec: direct uses of _make_request with every method and retry
\* flag, under every network outcome.  Each HTTP attempt ends (requests
\* are made with a timeout) and the calling thread keeps running, so a
\* loop iteration that can be taken is taken.
RequestNext ==
  \/ \E m \in Methods, e \in RawEndpoints, id \in RawIds, retry \in BOOLEAN :
       CallMakeRequest(m, e, id, retry)
  \/ \E net \in NetOutcomes : Attempt(net)

RequestSpec == Init /\ [][RequestNext]_vars
                    /\ WF_vars(\E net \in NetOutcomes : Attempt(net))

\* ServerSpec: requests of any sender reach the handlers one at a time
ServerNext ==
  \/ \E id \in SrvIds : ReqExists(id)
  \/ \E id \in SrvIds : ReqList(id)
  \/ \E x \in Handles : ReqDownload(x.h, x.pair)
  \/ \E id \in UploadIds, parts \in PartLists : ReqUpload(id, parts)

ServerSpec == Init /\ [][ServerNext]_vars

\* ConcSpec: one thread works on an upload, step by step, while other
\* threads answer exists, list and download requests for the same id
ConcNext ==
  \/ \E id \in ConcIds, parts \in ConcPartLists : UploadBegin(id, parts)
  \/ UploadOpen
  \/ UploadWrite
  \/ UploadEnd
  \/ ReqExists(Id1)
  \/ ReqList(Id1)
  \/ \E x \in ConcHandles : ReqDownload(x.h, x.pair)

ConcSpec == Init /\ [][ConcNext]_vars

\* CatalogSpec: uploads to the entries of two tools, any number of them,
\* with exists, list, download and dashboard requests in between
CatalogNext ==
  \/ \E id \in CatalogExistsIds : ReqExists(id)
  \/ \E id \in CatalogIds : ReqList(id)
  \/ \E x \in CatalogHandles : ReqDownload(x.h, x.pair)
  \/ ReqDashboard
  \/ \E id \in CatalogIds, parts \in CatalogPartLists : ReqWrite(id, parts)

CatalogSpec == Init /\ [][CatalogNext]_vars

\* IdSpec: identifier requests, one after another
IdNext ==
  \E simtool_name \in ToolNames, simtool_revision \in ToolRevisions,
     inputs \in InputMaps :
    ReqSquidId(simtool_name, simtool_revision, inputs)

IdSpec == Init /\ [][IdNext]_vars

\* RaceSpec: two threads each handle an upload of a part named b under
\* the same id, their steps in any order
RaceNext ==
  \/ \E t \in Threads, len \in 1..MaxChunks : RaceBegin(t, len)
  \/ \E t \in Threads : RaceOpen(t)
  \/ \E t \in Threads : RaceWrite(t)
  \/ \E t \in Threads : RaceEnd(t)

RaceSpec == Init /\ [][RaceNext]_vars

TypeOK ==
  /\ pc \in {"idle", "request", "download"}
  /\ attempt \in 0..MAX_RETRIES
  /\ mr \in {"none", "running", "returned", "raised"}
  /\ ret.kind \in {"none", "return", "raise"}

(***************************************************************************)
(* Properties                                                              *)
(***************************************************************************)
Last(q) == q[Len(q)]

\* a timeout, a connection error or a 5xx answer
IsTransient(ev) ==
  ev.exc \in {"Timeout", "ConnectionError"} \/ (ev.exc = "none" /\ ev.status >= 500)

IsOk(ev) == ev.exc = "none" /\ ev.status < 400

Is4xx(ev) == ev.exc = "none" /\ ev.status >= 400 /\ ev.status < 500

\* the exception the call's _make_request raised, let out or swallowed
MRExc == IF ret.kind = "raise" THEN ret.exc ELSE ret.caught

\* no attempt of the finished call met a fault of the network or the server
NoFault(q) == \A i \in DOMAIN q : IsOk(q[i])

\* C1: store_result followed by get_archived_result into an empty
\* destination, with no fault on the way, leaves in the destination exactly
\* the files store_result read, each at its relative path with its bytes.
C1_RoundTrip ==
  ( /\ pc = "idle"
    /\ call.op = "get_archived_result"
    /\ call.id = stored.id
    /\ stored.ok /\ stored.fresh
    /\ NoFault(trace) /\ NoFault(dtrace) )
  => (ret.val = TRUE /\ dest = stored.tree)

\* C2: an identifier nothing was stored under does not exist; after one
\* successful store_result of a single file under such an identifier it
\* exists and its listing has exactly one record.
C2_ExistsAfterStore ==
  /\ \A id \in IdSet : stored.id # id => ~SrvExists(id, store).body.exists
  /\ ( /\ call.op = "check_squid_exists" /\ pc = "idle"
       /\ call.id \in IdSet /\ stored.id # call.id )
     => ret.val = FALSE
  /\ (stored.ok /\ stored.fresh /\ Cardinality(DOMAIN stored.tree) = 1)
     => /\ SrvExists(stored.id, store).body.exists
        /\ Cardinality(SrvList(stored.id, store).body.files) = 1
        /\ ( /\ call.op = "check_squid_exists" /\ pc = "idle"
             /\ call.id = stored.id /\ mr = "returned" )
           => ret.val = TRUE
        /\ ( /\ call.op = "get_squid_files" /\ pc = "idle"
             /\ call.id = stored.id /\ mr = "returned" )
           => Cardinality(listing) = 1

C2_Witness ==
  /\ call.op = "get_squid_files" /\ pc = "idle" /\ mr = "returned"
  /\ call.id = stored.id /\ stored.ok /\ stored.fresh
  /\ Cardinality(DOMAIN stored.tree) = 1
  /\ Cardinality(listing) = 1

\* C3 as stated: with retries allowed, _make_request gives up on a
\* transient fault only at its fourth consecutive failed attempt.
C3_FourthFailure ==
  (mr = "raised" /\ call.retry /\ trace # <<>> /\ IsTransient(Last(trace)))
  => Len(trace) = 4

\* C3 amended: with retries allowed, every attempt before the last one of a
\* finished _make_request failed with a transient fault; a success at the
\* first, second or third attempt returns the response; a transient fault
\* is raised exactly at the third consecutive failed attempt.
C3_ThirdFailure ==
  (mr \in {"returned", "raised"} /\ call.retry /\ trace # <<>>)
  => /\ \A i \in 1..(Len(trace) - 1) : IsTransient(trace[i])
     /\ IsOk(Last(trace)) => mr = "returned"
     /\ IsTransient(Last(trace)) => (mr = "raised" /\ Len(trace) = 3)

C3_Witness ==
  /\ mr = "returned" /\ call.retry /\ Len(trace) = 3
  /\ IsTransient(trace[1]) /\ IsTransient(trace[2]) /\ IsOk(trace[3])

\* C4: a 4xx answer is always the last attempt of its _make_request, which
\* raises CacheClientException at once: only the transient attempts before
\* it were followed by a delay, whatever the retry flag.
C4_ClientErrorNoRetry ==
  \A i \in DOMAIN trace :
    Is4xx(trace[i])
    => /\ i = Len(trace)
       /\ pc = "idle" /\ mr = "raised"
       /\ MRExc = "CacheClientException"
       /\ sleeps = i - 1

C4_Witness ==
  /\ mr = "raised" /\ Len(trace) = 2 /\ sleeps = 1
  /\ IsTransient(trace[1]) /\ Is4xx(trace[2])

\* C5: a file download of get_archived_result that fails on a transient
\* fault has been attempted max_retries times.
C5_DownloadRetried ==
  ( /\ call.op = "get_archived_result" /\ pc = "idle"
    /\ dtrace # <<>> /\ IsTransient(Last(dtrace)) )
  => Len(dtrace) = MAX_RETRIES

\* C6: no _make_request makes more than 3 HTTP attempts, each one ends, by
\* returning a response or by raising CacheClientException.
C6_Terminates ==
  /\ [](Len(trace) <= 3 /\ (mr = "raised" => MRExc = "CacheClientException"))
  /\ (mr = "running") ~> (mr \in {"returned", "raised"})

C6_Witness == mr = "raised" /\ Len(trace) = 3 /\ sleeps = 2

\* C7: check_squid_exists never raises; when its request failed it
\* returns False.
C7_ExistsSoftFail ==
  (call.op = "check_squid_exists" /\ pc = "idle")
  => (ret.kind = "return" /\ (mr = "raised" => ret.val = FALSE))

C7_Witness ==
  /\ call.op = "check_squid_exists" /\ pc = "idle" /\ mr = "raised"
  /\ Len(trace) = 3 /\ ret.kind = "return" /\ ret.val = FALSE

\* C8: get_archived_result returns False exactly when the listing arrived
\* and is empty; a failed request does not end in that return.
C8_FalseOnlyWhenEmpty ==
  (call.op = "get_archived_result" /\ pc = "idle")
  => ((ret.kind = "return" /\ ret.val = FALSE) <=> (mr = "returned" /\ listing = {}))

\* C9 as stated: store_result that finds no file to upload raises, and
\* sends no request.
C9_NoFilesRaises ==
  (call.op = "store_result" /\ pc = "idle" /\ DOMAIN stored.tree = {})
  => (ret.kind = "raise" /\ trace = <<>>)

\* C9 amended: store_result that finds no file to upload returns False
\* without raising, and never enters _make_request: no request is sent.
C9_NoFilesReturnsFalse ==
  (call.op = "store_result" /\ DOMAIN stored.tree = {})
  => /\ pc = "idle"
     /\ mr = "none" /\ trace = <<>>
     /\ ret = Return(FALSE)

C9_Witness ==
  /\ call.op = "store_result" /\ pc = "idle" /\ DOMAIN stored.tree = {}
  /\ ret.kind = "return" /\ ret.val = FALSE /\ trace = <<>>

\* C10: when the upload request of store_result fails, store_result raises.
C10_UploadFailureRaises ==
  (call.op = "store_result" /\ pc = "idle" /\ mr = "raised")
  => ret.kind = "raise"

(***************************************************************************)
(* Properties of the server's handlers                                     *)
(***************************************************************************)
\* the (squid_id, file_name) the handle of the last download decodes to
Decoded == DecodeFileId(srv.handle)

\* the location the handle of the last download names, links followed
Target == RealPath(OsPathJoin(Decoded))

\* the directories the last request created, the files it wrote
NewDirs == store.dirs \ srv.before.dirs
Written ==
  { f \in DOMAIN store.files :
      f \notin DOMAIN srv.before.files \/ store.files[f] # srv.before.files[f] }

Reads == {"exists", "list", "download"}

\* C11: a download whose handle names a location outside the cache root,
\* symbolic links followed, is answered 403 and carries no bytes.
C11_NoEscape ==
  (srv.op = "download" /\ Decoded # <<>> /\ ~Inside(Target))
  => (srv.status = 403 /\ srv.body.data = 0)

\* C12: a download whose handle decodes to a path with a ".." segment is
\* answered 403 and carries no bytes, wherever the path leads.
C12_TraversalRejected ==
  ( /\ srv.op = "download" /\ Decoded # <<>>
    /\ \E i \in DOMAIN OsPathJoin(Decoded).segs : OsPathJoin(Decoded).segs[i] = Up )
  => (srv.status = 403 /\ srv.body.data = 0)

\* C13: every directory an upload request creates and every file it writes
\* is inside the cache root.
C13_UploadContained ==
  srv.op = "upload"
  => /\ \A d \in NewDirs : Inside(d)
     /\ \A f \in Written : Inside(f)

\* C14: the handle made from a (squid_id, file_name) pair decodes to that
\* pair, ":" in the id or in the name included.
C14_HandleRoundTrip ==
  (srv.op = "download" /\ srv.pair # <<>>) => Decoded = srv.pair

\* a file_id that is not base64 of text, or whose text has no ":"
NotAHandle(h) ==
  \/ ~B64Valid(h)
  \/ \A i \in DOMAIN B64Decode(h) : B64Decode(h)[i] # ":"

\* C15: a download whose file_id is not base64 of text, or is base64 of
\* text without ":", is answered 400 with no content, and the store is as
\* it was.
C15_InvalidHandle ==
  (srv.op = "download" /\ NotAHandle(srv.handle))
  => (srv.status = 400 /\ srv.body = NoBody /\ store = srv.before)

C15_Witness ==
  /\ srv.op = "download" /\ srv.status = 400
  /\ B64Valid(srv.handle) /\ B64Decode(srv.handle) = <<"a", "b">>

\* the logical relative path a stored flat name stands for
Unflatten(n) == Join(Split(n, Token), <<"/">>)

\* C16: the listing of an existing entry has one record per regular file
\* of the entry directory, its handle decoding to (id, stored name) and
\* its name being the stored name with each token turned back into a
\* separator; the listing of an entry that does not exist is empty; both
\* are answered 200.
C16_Listing ==
  (srv.op = "list" /\ srv.id # <<>>)
  => /\ srv.status = 200
     /\ IF OsIsDir(SquidPath(srv.id), store)
        THEN /\ Cardinality(srv.body.files)
                  = Cardinality(FilesIn(SquidDir(srv.id), store))
             /\ \A n \in FilesIn(SquidDir(srv.id), store) :
                  \E r \in srv.body.files :
                    /\ DecodeFileId(r.id) = <<srv.id, n>>
                    /\ r.name = Unflatten(n)
        ELSE srv.body.files = {}

\* C17: a download whose handle decodes and names a location inside the
\* cache root that is not a file is answered 404, carries no bytes, and
\* the store is as it was.
C17_NotFound ==
  ( /\ srv.op = "download" /\ Decoded # <<>>
    /\ Inside(Target) /\ ~IsFile(Target, srv.before) )
  => (srv.status = 404 /\ srv.body.data = 0 /\ store = srv.before)

C17_Witness ==
  /\ srv.op = "download" /\ srv.pair = <<Id1, <<"z">>>>
  /\ IsDir(SquidDir(Id1), store) /\ FilesIn(SquidDir(Id1), store) # {}
  /\ srv.status = 404

\* C18: a step that answers an exists, list or download request leaves
\* the directories, the files and their contents as they were.
C18_ReadOnly ==
  [][(srv' # srv /\ srv'.op \in Reads) => store' = store]_vars

C18_Witness ==
  /\ srv.op = "list" /\ srv.id = Id1 /\ srv.status = 200
  /\ ~IsDir(SquidDir(Id1), store)

\* C19: after an upload answered 200 the entry directory exists, every
\* named part is a file of it with the part's bytes, the returned count is
\* the number of files written and the returned names are the names of
\* these files in the entry directory.
C19_UploadReport ==
  (srv.op = "upload" /\ srv.status = 200)
  => LET dir == SquidDir(srv.id)
     IN  /\ IsDir(dir, store)
         /\ \A i \in DOMAIN srv.parts :
              srv.parts[i].filename # <<>>
              => \E n \in FilesIn(dir, store) :
                   store.files[Child(dir, n)] = srv.parts[i].data
         /\ srv.body.count = Cardinality(Range(srv.body.saved))
         /\ Range(srv.body.saved) \subseteq FilesIn(dir, store)

\* C20: a download answered while an upload is writing the same file
\* carries the complete bytes of the part being written.
C20_AtomicWrite ==
  ( /\ srv.op = "download" /\ srv.status = 200
    /\ srv.during.phase = "write" /\ Target = srv.during.path )
  => srv.body.data = srv.during.data

(***************************************************************************)
(* Properties of the path transforms and of the exhausted request          *)
(***************************************************************************)
\* C25: for the relative paths store_result read, splitting the flattened
\* name on the token gives the path back, and no two of the paths have the
\* same flattened name.
C25_FlattenInverse ==
  \A p \in DOMAIN stored.tree :
    /\ RestorePath(CacheKey(p)) = p
    /\ \A q \in DOMAIN stored.tree : CacheKey(q) = CacheKey(p) => q = p

\* C26: a _make_request that gave up at its last allowed attempt on a
\* timeout, a connection error or a 5xx answer raised CacheClientException
\* with a message that holds the url of the endpoint and the number of
\* attempts.
C26_ExhaustedMessage ==
  ( /\ mr = "raised" /\ call.retry
    /\ Len(trace) = MAX_RETRIES /\ IsTransient(Last(trace)) )
  => /\ MRExc = "CacheClientException"
     /\ RaisedMessage(Last(trace)).url
     /\ RaisedMessage(Last(trace)).attempts

(***************************************************************************)
(* Properties of uploads that run while other requests are answered        *)
(***************************************************************************)
\* the file names of a listing
Names(files) == { f.name : f \in files }

\* C21: a listing of an id answered while an upload to that id is in
\* progress shows every file the upload has saved so far and the file it is
\* writing, without waiting for the upload's remaining parts: the files of
\* an upload become visible one by one.
C21_VisibleOneByOne ==
  ( /\ srv.op = "list" /\ srv.status = 200
    /\ srv.during.phase # "none" /\ srv.during.id = srv.id )
  => /\ Range(srv.during.saved) \subseteq Names(srv.body.files)
     /\ srv.during.phase = "write"
          => srv.during.path[Len(srv.during.path)] \in Names(srv.body.files)

\* a listing answered between the two parts of an upload shows the first
\* and not the second
C21_Witness ==
  /\ srv.op = "list" /\ srv.id = Id1
  /\ srv.during.id = Id1 /\ srv.during.phase = "loop"
  /\ srv.during.saved = <<PartB.filename>>
  /\ srv.during.parts = <<PartA>>
  /\ Names(srv.body.files) = {PartB.filename}

(***************************************************************************)
(* Properties of the catalog scan and of the life of entries               *)
(***************************************************************************)
\* the ids whose entry directory holds a file
Written3 == { id \in CatalogIds : FilesIn(SquidDir(id), store) # {} }

\* the names tool and tool/revision of an id tool/revision/hash
Ancestors(id) ==
  { RelPath(a) : a \in { q \in Prefixes(PathOf(id)) : q # <<>> /\ q # PathOf(id) } }

\* C27: the scan behind the dashboard reports every entry written under an
\* id tool/revision/hash as one record whose squid_id is that id and whose
\* files are the entry's, and reports no record whose squid_id is tool or
\* tool/revision.
C27_ScanKeyedById ==
  srv.op = "dashboard" =>
    \A id \in Written3 :
      /\ Cardinality({ e \in srv.body.entries : e.squid_id = id }) = 1
      /\ \A e \in srv.body.entries :
           /\ e.squid_id = id => Names(e.files) = FilesIn(SquidDir(id), store)
           /\ e.squid_id \notin Ancestors(id)

C29_NeverRemoved ==
  [][ \A id \in CatalogIds :
        /\ SrvExists(id, store).body.exists => SrvExists(id, store').body.exists
        /\ Names(SrvList(id, store).body.files)
             \subseteq Names(SrvList(id, store').body.files) ]_vars

\* an upload that wrote b again into an entry that held a and b, with
\* another entry beside it
C29_Witness ==
  /\ srv.op = "upload" /\ srv.status = 200 /\ srv.id = Id1
  /\ srv.parts = <<PartB>>
  /\ FilesIn(SquidDir(Id1), srv.before) = {PartA.filename, PartB.filename}
  /\ FilesIn(SquidDir(Id1), store) = {PartA.filename, PartB.filename}
  /\ FilesIn(SquidDir(Id2), store) # {}

\* C30: every entry directory that exists holds a file: an upload that
\* saved no file, or failed, left no entry directory.
C30_EntryOnlyByWrite ==
  \A id \in CatalogIds :
    IsDir(SquidDir(id), store) => FilesIn(SquidDir(id), store) # {}

(***************************************************************************)
(* Properties of identifiers                                               *)
(***************************************************************************)
\* the value a mapping holds for a key
ValueAt(m, k) == (CHOOSE i \in Range(m.items) : i.key = k).val
Keys(m) == { i.key : i \in Range(m.items) }

\* two JSON values are the same value: the same number, or mappings with
\* the same keys and the same value for each key, in whatever order
RECURSIVE SameValue(_, _)
SameValue(v, w) ==
  /\ v.kind = w.kind
  /\ v.kind = "num" => v.text = w.text
  /\ v.kind = "map" =>
       /\ Keys(v) = Keys(w)
       /\ \A k \in Keys(v) : SameValue(ValueAt(v, k), ValueAt(w, k))

\* C23: two identifier requests with the same tool name and revision, and
\* inputs that are the same mapping with its keys inserted in any order at
\* any level, are answered with the same identifier.
C23_OrderIndependent ==
  [][ ( /\ srv.op = "id" /\ srv.status = 200
        /\ srv'.op = "id" /\ srv'.status = 200
        /\ srv'.pair = srv.pair
        /\ SameValue(srv.parts[1], srv'.parts[1]) )
      => srv'.body.id = srv.body.id ]_vars

\* a request whose inputs have their keys out of order at both levels is
\* answered with the identifier of the same inputs in key order
C23_Witness ==
  /\ srv.op = "id" /\ srv.status = 200
  /\ srv.parts[1] =
       Map(<<Item(<<"c">>, Map(<<Item(<<"b">>, Num(<<"2">>)),
                                 Item(<<"a">>, Num(<<"1">>))>>)),
             Item(<<"a">>, Num(<<"1">>))>>)
  /\ srv.body.id = <<"s", "/", "v", "/">> \o
       Md5Hex(Dumps(Map(<<Item(<<"a">>, Num(<<"1">>)),
                          Item(<<"c">>, Map(<<Item(<<"a">>, Num(<<"1">>)),
                                              Item(<<"b">>, Num(<<"2">>))>>))>>)))

\* C24: the identifier of every answered identifier request splits on "/"
\* into exactly three segments: the tool name, the revision, and a digest
\* of the width every digest has.
C24_ThreeSegments ==
  (srv.op = "id" /\ srv.status = 200) =>
    LET segs == Split(srv.body.id, <<"/">>)
    IN  /\ Len(segs) = 3
        /\ segs[1] = srv.pair[1]
        /\ segs[2] = srv.pair[2]
        /\ Len(segs[3]) = Len(Md5Hex(<<>>))

(***************************************************************************)
(* Properties of two uploads of the same file                              *)
(***************************************************************************)
\* C22: when both uploads of the same file name under the same id have
\* been answered, both were answered 200 and the file holds exactly the
\* content one of the two sent.
C22_LastWriterWins ==
  (\A t \in Threads : thr[t].phase = "done") =>
    /\ \A t \in Threads : thr[t].status = 200
    /\ \E t \in Threads : store.files[RacePath] = Content(t, thr[t].len)

(***************************************************************************)
(* Properties of the catalog's totals                                      *)
(***************************************************************************)
\* the sum of the field f over a set of records
RECURSIVE SumField(_, _)
SumField(S, f) ==
  IF S = {} THEN 0
  ELSE LET x == CHOOSE y \in S : TRUE
       IN  x[f] + SumField(S \ {x}, f)

\* the regular files beneath the directories of the cache root, each with
\* the name of the directory it is beneath
Beneath ==
  { <<item, p>> \in ListDir(<<>>, store) \X DOMAIN store.files :
      /\ IsDir(Child(<<>>, item), store)
      /\ IsProperPrefix(Child(<<>>, item), p) }

\* C31: in a dashboard answer the file counts of the entries add up to the
\* number of regular files beneath the directories of the cache root and
\* every such file is in exactly one entry; each entry's total_size is the
\* sum of the sizes of its files; the total of the page is the sum of the
\* entries' total_size.
C31_ScanTotals ==
  srv.op = "dashboard" =>
    /\ SumField(srv.body.entries, "file_count") = Cardinality(Beneath)
    /\ \A x \in Beneath :
         Cardinality({ e \in srv.body.entries :
                         \E f \in e.files :
                           /\ f.size = store.files[x[2]]
                           /\ PathOf(e.squid_id) \o PathOf(f.path)
                                = <<x[1]>> \o SubSeq(x[2],
                                     Len(Child(<<>>, x[1])) + 1, Len(x[2])) })
           = 1
    /\ \A e \in srv.body.entries :
         /\ e.file_count = Cardinality(e.files)
         /\ e.total_size = SumField(e.files, "size")
    /\ srv.body.total = SumField(srv.body.entries, "total_size")

\* a dashboard answer for a store with files of different sizes in two
\* entries of one tool and one entry of another
C31_Witness ==
  /\ srv.op = "dashboard"
  /\ \A id \in CatalogIds :
       FilesIn(SquidDir(id), store) = {PartA.filename, PartB.filename}
  /\ srv.body.total = 17

(***************************************************************************)
(* Properties of the layout of the store                                   *)
(***************************************************************************)
\* C32: after any uploads to ids of three plain segments, every file in
\* the cache root is directly in the entry directory of one of the ids,
\* and no directory of the cache root is beneath an entry directory,
\* whatever the file names of the parts.
C32_FlatEntries ==
  /\ \A p \in DOMAIN store.files :
       Inside(p) => \E id \in CatalogIds : ParentOf(p) = SquidDir(id)
  /\ \A d \in store.dirs :
       Inside(d) => \A id \in CatalogIds : ~IsProperPrefix(SquidDir(id), d)

\* an upload of a part named ../b answered 200 with b in the entry
C32_Witness ==
  /\ srv.op = "upload" /\ srv.status = 200 /\ srv.parts = <<PartUp>>
  /\ srv.body.saved = <<PartB.filename>>
  /\ IsFile(Child(SquidDir(srv.id), PartB.filename), store)
  /\ ~IsFile(Child(SquidDir(srv.id), PartB.filename), srv.before)

(***************************************************************************)
(* Properties of the existence check after uploads                         *)
(***************************************************************************)
\* the answer of an existence check for x in a store
Exists(x, st) == SrvExists(x, st).body.exists

\* the existence check is false for x in this state and true in the next
TurnsTrue(x) == ~Exists(x, store) /\ Exists(x, store')

\* the existence check answers true for x only if x was the squid_id of an
\* earlier upload: the answer for x turns true only in an upload to x
C33_OnlyUploadedIds ==
  [][ \A x \in CatalogExistsIds :
        TurnsTrue(x) => (srv'.op = "upload" /\ srv'.id = x) ]_vars

\* C33: in the store without uploads the existence check answers true
\* only for a directory that is there without any upload, and its answer
\* for x turns true only in an upload whose entry directory is the
\* directory x names or is beneath it: for the squid_id of the upload, its
\* tool name and its name/revision.
C33_OnlyCreatedDirectories ==
  /\ \A x \in CatalogExistsIds : Exists(x, store) => SquidDir(x) \in EmptyStore.dirs
  /\ [][ \A x \in CatalogExistsIds :
           TurnsTrue(x) =>
             /\ srv'.op = "upload"
             /\ SquidDir(x) \in Visited(SquidPath(srv'.id).base,
                                        SquidPath(srv'.id).segs) ]_vars

\* an existence check for the tool name alone answered true
C33_Witness ==
  /\ srv.op = "exists" /\ srv.id = <<"s">> /\ srv.status = 200
  /\ srv.body.exists
  /\ ~IsDir(SquidDir(Id3), store)

(***************************************************************************)
(* Properties of identifiers of different tools                            *)
(***************************************************************************)
\* C34: two identifier requests with the same inputs and different (tool
\* name, revision) pairs, names and revisions holding "/" included, are
\* answered with different identifiers.
C34_InjectiveInTool ==
  [][ ( /\ srv.op = "id" /\ srv.status = 200
        /\ srv'.op = "id" /\ srv'.status = 200
        /\ srv'.parts = srv.parts
        /\ srv'.pair # srv.pair )
      => srv'.body.id # srv.body.id ]_vars

(***************************************************************************)
(* Properties of rejected uploads                                          *)
(***************************************************************************)
\* C35: a step that answers an upload request with 400, for a missing
\* squid_id or for no files part, changes no directory and no file.
C35_RejectedUploadNoChange ==
  [][ (srv' # srv /\ srv'.op = "upload" /\ srv'.status = 400)
      => store' = store ]_vars

\* an upload for s/v/h without a files part answered 400, the entry absent
C35_Witness ==
  /\ srv.op = "upload" /\ srv.status = 400
  /\ srv.id = Id1 /\ srv.parts = <<>>
  /\ ~IsDir(SquidDir(Id1), store)
  /\ ~IsDir(<< <<"s">> >>, store)

(***************************************************************************)
(* Properties of repeated uploads                                          *)
(***************************************************************************)
\* C36: an upload request that follows an upload request with the same
\* squid_id and the same parts, names and bytes, leaves the directories and
\* the files as the first left them.
C36_UploadIdempotent ==
  [][ ( /\ srv.op = "upload" /\ srv'.op = "upload"
        /\ srv'.id = srv.id /\ srv'.parts = srv.parts )
      => store' = store ]_vars

\* the second of two uploads of b and a to s/v/h, answered 200 like the
\* first
C36_Witness ==
  /\ srv.op = "upload" /\ srv.status = 200 /\ srv.id = Id1
  /\ srv.parts = <<PartB, PartA>>
  /\ srv.body.saved = <<PartB.filename, PartA.filename>>
  /\ FilesIn(SquidDir(Id1), srv.before) = {PartA.filename, PartB.filename}
  /\ store = srv.before

(***************************************************************************)
(* Properties of the result of a retrieval                                 *)
(***************************************************************************)
\* the download of the last step failed: an exception of requests, a status
\* of 400 or more, or a path that cannot be written
DownloadFailed ==
  \/ dtrace'[1].exc # "none"
  \/ dtrace'[1].status >= 400
  \/ ret'.caught = "OSError"

C37_WitnessAll ==
  /\ call.op = "get_archived_result" /\ pc = "idle"
  /\ ret = Return(TRUE)
  /\ Cardinality(listing) = 2
  /\ Cardinality(DOMAIN dest) = 2

====
